---- MODULE Spec2Model ----
(***************************************************************************)
(* Model of the development-database bootstrap of database_postgres:       *)
(*   - init_db.py : init_sqlite_db, _execute_many, write_connection_files  *)
(*   - test_db.py : main (the schema validator)                            *)
(* together with the behaviour of the schema that init_db.py declares      *)
(* (foreign keys with their ON DELETE actions, the UNIQUE constraint of    *)
(* shares) when an application inserts and deletes rows.                   *)
(*                                                                         *)
(* The storage engine is Python's sqlite3 module in its default (legacy)   *)
(* transaction control: a transaction is opened implicitly before an       *)
(* INSERT/UPDATE/DELETE/REPLACE only, DDL statements and PRAGMAs run in    *)
(* autocommit mode, and the connection's context manager commits or rolls  *)
(* back on exit of the with block but does not close the connection.       *)
(***************************************************************************)
EXTENDS Integers, Sequences, FiniteSets, TLC

\* ------------------------------------------------------------------ bounds

\* Number of initializer runs that reach the seeding step (bounds the
\* AUTOINCREMENT counter of app_info).
MaxRuns == 2
\* Number of rows the application ever inserts, all tables together.
MaxRows == 5

\* ------------------------------------------------------------------ schema

\* A NULL column value (row ids start at 1).
NULL == 0

\* Mutant of schema_statements: credentials is created before users, the
\* table it references.
schema_statements_credentials_first ==
    << [kind |-> "table", name |-> "app_info",      on |-> "", column |-> ""],
       [kind |-> "table", name |-> "credentials",   on |-> "", column |-> ""],
       [kind |-> "table", name |-> "users",         on |-> "", column |-> ""],
       [kind |-> "table", name |-> "shares",        on |-> "", column |-> ""],
       [kind |-> "table", name |-> "ekyc_sessions", on |-> "", column |-> ""],
       [kind |-> "table", name |-> "audit_logs",    on |-> "", column |-> ""],
       [kind |-> "index", name |-> "idx_users_email",
                          on |-> "users",         column |-> "email"],
       [kind |-> "index", name |-> "idx_users_username",
                          on |-> "users",         column |-> "username"],
       [kind |-> "index", name |-> "idx_credentials_user_id",
                          on |-> "credentials",   column |-> "user_id"],
       [kind |-> "index", name |-> "idx_shares_credential_id",
                          on |-> "shares",        column |-> "credential_id"],
       [kind |-> "index", name |-> "idx_shares_shared_with_user_id",
                          on |-> "shares",        column |-> "shared_with_user_id"],
       [kind |-> "index", name |-> "idx_ekyc_user_id",
                          on |-> "ekyc_sessions", column |-> "user_id"],
       [kind |-> "index", name |-> "idx_audit_user_id",
                          on |-> "audit_logs",    column |-> "user_id"],
       [kind |-> "index", name |-> "idx_audit_created_at",
                          on |-> "audit_logs",    column |-> "created_at"] >>

\* init_db.py, schema_statements: the six CREATE TABLE IF NOT EXISTS
\* statements followed by the eight CREATE INDEX IF NOT EXISTS statements,
\* in the order of the list.
schema_statements ==
    << [kind |-> "table", name |-> "app_info",      on |-> "", column |-> ""],
       [kind |-> "table", name |-> "users",         on |-> "", column |-> ""],
       [kind |-> "table", name |-> "credentials",   on |-> "", column |-> ""],
       [kind |-> "table", name |-> "shares",        on |-> "", column |-> ""],
       [kind |-> "table", name |-> "ekyc_sessions", on |-> "", column |-> ""],
       [kind |-> "table", name |-> "audit_logs",    on |-> "", column |-> ""],
       [kind |-> "index", name |-> "idx_users_email",
                          on |-> "users",         column |-> "email"],
       [kind |-> "index", name |-> "idx_users_username",
                          on |-> "users",         column |-> "username"],
       [kind |-> "index", name |-> "idx_credentials_user_id",
                          on |-> "credentials",   column |-> "user_id"],
       [kind |-> "index", name |-> "idx_shares_credential_id",
                          on |-> "shares",        column |-> "credential_id"],
       [kind |-> "index", name |-> "idx_shares_shared_with_user_id",
                          on |-> "shares",        column |-> "shared_with_user_id"],
       [kind |-> "index", name |-> "idx_ekyc_user_id",
                          on |-> "ekyc_sessions", column |-> "user_id"],
       [kind |-> "index", name |-> "idx_audit_user_id",
                          on |-> "audit_logs",    column |-> "user_id"],
       [kind |-> "index", name |-> "idx_audit_created_at",
                          on |-> "audit_logs",    column |-> "created_at"] >>

Statements == { schema_statements[i] : i \in 1..Len(schema_statements) }

TableNames == { s.name : s \in { t \in Statements : t.kind = "table" } }

IndexDefs == { s \in Statements : s.kind = "index" }

IndexNames == { s.name : s \in IndexDefs }

\* Every table of the schema has an INTEGER PRIMARY KEY AUTOINCREMENT id:
\* the engine creates its bookkeeping table sqlite_sequence with the first.
InternalTables == { "sqlite_sequence" }

\* Mutant of ForeignKeys: shares.shared_with_user_id has no FOREIGN KEY
\* clause.
ForeignKeysShareeUnreferenced ==
    { [table |-> "credentials",   column |-> "user_id",
       ref |-> "users",       on_delete |-> "CASCADE"],
      [table |-> "shares",        column |-> "credential_id",
       ref |-> "credentials", on_delete |-> "CASCADE"],
      [table |-> "ekyc_sessions", column |-> "user_id",
       ref |-> "users",       on_delete |-> "CASCADE"],
      [table |-> "audit_logs",    column |-> "user_id",
       ref |-> "users",       on_delete |-> "SET NULL"] }

\* The FOREIGN KEY clauses of the CREATE TABLE statements.
ForeignKeys ==
    { [table |-> "credentials",   column |-> "user_id",
       ref |-> "users",       on_delete |-> "CASCADE"],
      [table |-> "shares",        column |-> "credential_id",
       ref |-> "credentials", on_delete |-> "CASCADE"],
      [table |-> "shares",        column |-> "shared_with_user_id",
       ref |-> "users",       on_delete |-> "CASCADE"],
      [table |-> "ekyc_sessions", column |-> "user_id",
       ref |-> "users",       on_delete |-> "CASCADE"],
      [table |-> "audit_logs",    column |-> "user_id",
       ref |-> "users",       on_delete |-> "SET NULL"] }

\* UNIQUE (credential_id, shared_with_user_id) of shares.
SharesUnique == << "credential_id", "shared_with_user_id" >>

\* The two INSERT OR REPLACE INTO app_info (key, value) statements.
SeedRows ==
    << [key |-> "project_name", value |-> "database_postgres"],
       [key |-> "version",      value |-> "0.2.0"] >>

\* Mutant of REQUIRED_TABLES: audit_logs is not required.
REQUIRED_TABLES_without_audit_logs ==
    { "users", "credentials", "shares", "ekyc_sessions" }

\* test_db.py
REQUIRED_TABLES ==
    { "users", "credentials", "shares", "ekyc_sessions", "audit_logs" }

\* write_connection_files: the three artifacts, in the order written.
Artifacts == << "db_connection.txt", ".env", "db_visualizer/sqlite.env" >>


\* ------------------------------------------------------------------- state

VARIABLES
    \* the database file (what is committed to it)
    file_exists,    \* os.path.exists(db_path)
    journal_mode,   \* the journal mode recorded in the file: "delete" | "wal"
    tables,         \* names in sqlite_master with type = 'table'
    indexes,        \* names in sqlite_master with type = 'index' (declared ones)
    seq,            \* sqlite_sequence: table name -> last AUTOINCREMENT id
    app_info,       \* rows [id, key, value]
    users,          \* ids of the users rows
    credentials,    \* rows [id, user_id]
    shares,         \* rows [id, credential_id, shared_with_user_id]
    ekyc_sessions,  \* rows [id, user_id]
    audit_logs,     \* rows [id, user_id], user_id an id or NULL
    \* the running script
    pc,             \* position in init_sqlite_db / main, "idle" between runs
    stmt,           \* _execute_many: index of the next statement
    conn,           \* "none" | "open" | "closed"
    foreign_keys,   \* PRAGMA foreign_keys of the connection
    txn,            \* the connection's open transaction (uncommitted app_info)
    first_time,     \* init_sqlite_db's local first_time
    written,        \* artifacts written by this call of write_connection_files
    warned,         \* artifacts whose write failed and was warned about
    status_msg,     \* the status line printed last
    ret,            \* what the last finished operation returned or raised
    missing,        \* main: REQUIRED_TABLES - existing
    existing,       \* main: the table names read from sqlite_master
    \* bookkeeping for the statements of the claims
    entry,          \* what the file held when the running call was entered
    succ            \* some call of init_sqlite_db has returned without error

dbvars == << file_exists, journal_mode, tables, indexes, seq, app_info >>

rowvars == << users, credentials, shares, ekyc_sessions, audit_logs >>

callvars == << pc, stmt, conn, foreign_keys, txn, first_time, written, warned,
               status_msg, ret, missing, existing, entry, succ >>

vars == << dbvars, rowvars, callvars >>

\* Everything the database file holds.
Persisted ==
    [ file_exists |-> file_exists, journal_mode |-> journal_mode,
      tables |-> tables, indexes |-> indexes, seq |-> seq,
      app_info |-> app_info, users |-> users, credentials |-> credentials,
      shares |-> shares, ekyc_sessions |-> ekyc_sessions,
      audit_logs |-> audit_logs ]

NoTxn == [ active |-> FALSE, app_info |-> {}, seq |-> 0 ]

\* The value of entry while no call is running.
NoEntry ==
    [ file_exists |-> FALSE, journal_mode |-> "delete", tables |-> {},
      indexes |-> {}, seq |-> [ t \in TableNames |-> 0 ], app_info |-> {},
      users |-> {}, credentials |-> {}, shares |-> {}, ekyc_sessions |-> {},
      audit_logs |-> {} ]

\* ------------------------------------------------------------ prior states

\* The indexes of the schema whose table is among ts.
IndexesOn(ts) == { d.name : d \in { x \in IndexDefs : x.on \in ts } }

\* Contents app_info may have before the initializer runs: none, a seed row
\* of an earlier release, a row under another key.
PriorAppInfo ==
    { {},
      { [id |-> 1, key |-> "version", value |-> "0.1.0"] },
      { [id |-> 1, key |-> "schema",  value |-> "dev"] } }

\* Rows an application may have left in a database that has its tables.
PriorRows ==
    { [ users |-> {}, credentials |-> {}, shares |-> {}, ekyc_sessions |-> {},
        audit_logs |-> {} ],
      [ users |-> { 1 },
        credentials |-> { [ id |-> 1, user_id |-> 1 ] },
        shares |-> { [ id |-> 1, credential_id |-> 1, shared_with_user_id |-> 1 ] },
        ekyc_sessions |-> { [ id |-> 1, user_id |-> 1 ] },
        audit_logs |-> { [ id |-> 1, user_id |-> 1 ] } ] }

\* The file is absent, or holds any subset of the schema's tables, with
\* none or all of the indexes of those tables.
Init ==
    /\ file_exists \in BOOLEAN
    /\ tables \in { IF ts = {} THEN {} ELSE ts \cup InternalTables :
                    ts \in SUBSET TableNames }
    /\ file_exists = FALSE => tables = {}
    /\ indexes \in { {}, IndexesOn(tables) }
    /\ journal_mode \in (IF tables = {} THEN { "delete" } ELSE { "delete", "wal" })
    /\ app_info \in (IF "app_info" \in tables THEN PriorAppInfo ELSE { {} })
    /\ \E rows \in (IF TableNames \subseteq tables
                     THEN PriorRows ELSE { CHOOSE r \in PriorRows : r.users = {} }) :
         /\ users = rows.users /\ credentials = rows.credentials
         /\ shares = rows.shares /\ ekyc_sessions = rows.ekyc_sessions
         /\ audit_logs = rows.audit_logs
    /\ seq = [ t \in TableNames |->
                 IF t = "app_info" THEN Cardinality(app_info)
                 ELSE Cardinality(users) ]
    /\ pc = "idle" /\ stmt = 1 /\ conn = "none" /\ foreign_keys = FALSE
    /\ txn = NoTxn /\ first_time = FALSE
    /\ written = {} /\ warned = {} /\ status_msg = "" /\ ret = "none"
    /\ missing = {} /\ existing = {}
    /\ entry = NoEntry /\ succ = FALSE

\* ------------------------------------------------- init_db.py: the engine

\* Mutant of InsertOrReplace: a plain INSERT on a table without the UNIQUE
\* key, the conflicting row stays.
InsertPlain(rows, last, row) ==
    [ app_info |-> rows \cup
                     { [id |-> last + 1, key |-> row.key, value |-> row.value] },
      seq |-> last + 1 ]

\* INSERT OR REPLACE INTO app_info (key, value): the rows that conflict on
\* the UNIQUE key are deleted, the new row takes the next AUTOINCREMENT id.
InsertOrReplace(rows, last, row) ==
    [ app_info |-> { r \in rows : r.key # row.key }
                     \cup { [id |-> last + 1, key |-> row.key, value |-> row.value] },
      seq |-> last + 1 ]

\* What the connection sees of app_info: its open transaction, if any.
View == IF txn.active THEN txn
        ELSE [ active |-> TRUE, app_info |-> app_info, seq |-> seq["app_info"] ]

\* An exception leaves the with block: Connection.__exit__ rolls the open
\* transaction back and re-raises; it does not close the connection.
RaiseInWith ==
    /\ txn' = NoTxn
    /\ pc' = "raised"
    /\ ret' = "sqlite3.Error"

\* ------------------------------------------------ init_db.py: init_sqlite_db

\* Lines 48-51: first_time = not os.path.exists(db_path); os.makedirs(...).
InitEnter ==
    /\ pc = "idle"
    /\ seq["app_info"] < 2 * MaxRuns
    /\ first_time' = ~file_exists
    /\ entry' = Persisted
    /\ \E ok \in BOOLEAN :
         IF ok THEN pc' = "connect" /\ ret' = "none"
               ELSE pc' = "raised" /\ ret' = "OSError"
    /\ UNCHANGED << dbvars, rowvars, stmt, conn, foreign_keys, txn, written,
                    warned, status_msg, missing, existing, succ >>

\* Line 53: sqlite3.connect(db_path) creates the file when it is absent.
InitConnect ==
    /\ pc = "connect"
    /\ \E ok \in BOOLEAN :
         IF ok THEN /\ conn' = "open"
                    /\ file_exists' = TRUE
                    /\ foreign_keys' = FALSE
                    /\ pc' = "pragma_fk"
                    /\ UNCHANGED ret
               ELSE /\ pc' = "raised"
                    /\ ret' = "sqlite3.Error"
                    /\ UNCHANGED << conn, file_exists, foreign_keys >>
    /\ UNCHANGED << journal_mode, tables, indexes, seq, app_info, rowvars,
                    stmt, txn, first_time, written, warned, status_msg,
                    missing, existing, entry, succ >>

\* Line 54: PRAGMA foreign_keys = ON, a setting of the connection.
PragmaForeignKeys ==
    /\ pc = "pragma_fk"
    /\ \E ok \in BOOLEAN :
         IF ok THEN /\ foreign_keys' = TRUE
                    /\ pc' = "pragma_wal"
                    /\ UNCHANGED << txn, ret >>
               ELSE /\ RaiseInWith
                    /\ UNCHANGED foreign_keys
    /\ UNCHANGED << dbvars, rowvars, stmt, conn, first_time, written, warned,
                    status_msg, missing, existing, entry, succ >>

\* Line 55: PRAGMA journal_mode = WAL is recorded in the file at once.
PragmaJournalMode ==
    /\ pc = "pragma_wal"
    /\ \E ok \in BOOLEAN :
         IF ok THEN /\ journal_mode' = "wal"
                    /\ pc' = "pragma_sync"
                    /\ UNCHANGED << txn, ret >>
               ELSE /\ RaiseInWith
                    /\ UNCHANGED journal_mode
    /\ UNCHANGED << file_exists, tables, indexes, seq, app_info, rowvars, stmt,
                    conn, foreign_keys, first_time, written, warned,
                    status_msg, missing, existing, entry, succ >>

\* Lines 56-58: PRAGMA synchronous = NORMAL; cur = conn.cursor().
PragmaSynchronous ==
    /\ pc = "pragma_sync"
    /\ \E ok \in BOOLEAN :
         IF ok THEN /\ pc' = "ddl"
                    /\ stmt' = 1
                    /\ UNCHANGED << txn, ret >>
               ELSE /\ RaiseInWith
                    /\ UNCHANGED stmt
    /\ UNCHANGED << dbvars, rowvars, conn, foreign_keys, first_time, written,
                    warned, status_msg, missing, existing, entry, succ >>

\* Mutant of Execute: DROP TABLE IF EXISTS before CREATE TABLE, which drops
\* the table's indexes with it.
ExecuteDropCreate(s, cat) ==
    IF s.kind = "table"
    THEN [ cat EXCEPT !.tables = @ \cup { s.name } \cup InternalTables,
                      !.indexes = @ \ { d.name : d \in { x \in IndexDefs :
                                                          x.on = s.name } } ]
    ELSE IF s.name \in cat.indexes
         THEN cat
         ELSE IF s.on \notin cat.tables
              THEN [ cat EXCEPT !.error = TRUE ]
              ELSE [ cat EXCEPT !.indexes = @ \cup { s.name } ]

\* CREATE TABLE IF NOT EXISTS / CREATE INDEX IF NOT EXISTS: what the
\* statement s makes of the catalogue cat = [error, tables, indexes]. A
\* table's foreign keys are not resolved when it is created; an index
\* needs its table ("no such table" otherwise).
Execute(s, cat) ==
    IF s.kind = "table"
    THEN IF s.name \in cat.tables
         THEN cat
         ELSE [ cat EXCEPT !.tables = @ \cup { s.name } \cup InternalTables ]
    ELSE IF s.name \in cat.indexes
         THEN cat
         ELSE IF s.on \notin cat.tables
              THEN [ cat EXCEPT !.error = TRUE ]
              ELSE [ cat EXCEPT !.indexes = @ \cup { s.name } ]

\* Lines 36-42 and 151: one iteration of _execute_many over
\* schema_statements (none of which is empty, so none is skipped). No
\* transaction is open: the statement is committed as it is executed.
ExecuteStatement ==
    /\ pc = "ddl"
    /\ LET s   == schema_statements[stmt]
           res == Execute(s, [ error |-> FALSE, tables |-> tables,
                              indexes |-> indexes ])
       IN \E ok \in BOOLEAN :
            IF ok /\ ~res.error
            THEN /\ tables' = res.tables
                 /\ indexes' = res.indexes
                 /\ IF stmt < Len(schema_statements)
                    THEN stmt' = stmt + 1 /\ pc' = "ddl"
                    ELSE stmt' = 1 /\ pc' = "seed1"
                 /\ UNCHANGED << txn, ret >>
            ELSE /\ RaiseInWith
                 /\ UNCHANGED << tables, indexes, stmt >>
    /\ UNCHANGED << file_exists, journal_mode, seq, app_info, rowvars, conn,
                    foreign_keys, first_time, written, warned, status_msg,
                    missing, existing, entry, succ >>

\* cur.execute("INSERT OR REPLACE INTO app_info ..."): sqlite3 opens a
\* transaction before the first of them; the row is not committed yet.
Seed(row, next) ==
    /\ \E ok \in BOOLEAN :
         IF ok /\ "app_info" \in tables
         THEN /\ txn' = [ active |-> TRUE ] @@
                        InsertOrReplace(View.app_info, View.seq, row)
              /\ pc' = next
              /\ UNCHANGED ret
         ELSE RaiseInWith
    /\ UNCHANGED << dbvars, rowvars, stmt, conn, foreign_keys, first_time,
                    written, warned, status_msg, missing, existing, entry, succ >>

\* Lines 154-157.
SeedProjectName ==
    /\ pc = "seed1"
    /\ Seed(SeedRows[1], "seed2")

\* Lines 158-161.
SeedVersion ==
    /\ pc = "seed2"
    /\ Seed(SeedRows[2], "commit")

\* Line 163: conn.commit() makes the transaction's rows the file's.
Commit ==
    /\ pc = "commit"
    /\ \E ok \in BOOLEAN :
         IF ok THEN /\ app_info' = View.app_info
                    /\ seq' = [ seq EXCEPT !["app_info"] = View.seq ]
                    /\ txn' = NoTxn
                    /\ pc' = "exit_with"
                    /\ UNCHANGED ret
               ELSE /\ RaiseInWith
                    /\ UNCHANGED << app_info, seq >>
    /\ UNCHANGED << file_exists, journal_mode, tables, indexes, rowvars, stmt,
                    conn, foreign_keys, first_time, written, warned,
                    status_msg, missing, existing, entry, succ >>

\* Line 53, leaving the with block normally: Connection.__exit__ commits
\* (nothing is left to commit) and leaves the connection open.
ExitWith ==
    /\ pc = "exit_with"
    /\ pc' = "emit1"
    /\ UNCHANGED << dbvars, rowvars, stmt, conn, foreign_keys, txn,
                    first_time, written, warned, status_msg, ret, missing,
                    existing, entry, succ >>

\* ---------------------------------------- init_db.py: write_connection_files

\* Mutant of WriteArtifact: no try/except, a failed write propagates.
WriteArtifactUnguarded(k, next) ==
    /\ \E ok \in BOOLEAN :
         IF ok THEN /\ written' = written \cup { Artifacts[k] }
                    /\ pc' = next
                    /\ UNCHANGED ret
               ELSE /\ pc' = "raised"
                    /\ ret' = "OSError"
                    /\ UNCHANGED written
    /\ UNCHANGED << dbvars, rowvars, stmt, conn, foreign_keys, txn, warned,
                    first_time, status_msg, missing, existing, entry, succ >>

\* One try/except block: the artifact is written, or the exception is
\* caught and a warning printed; either way the next block runs.
WriteArtifact(k, next) ==
    /\ \E ok \in BOOLEAN :
         IF ok THEN written' = written \cup { Artifacts[k] } /\ UNCHANGED warned
               ELSE warned' = warned \cup { Artifacts[k] } /\ UNCHANGED written
    /\ pc' = next
    /\ UNCHANGED << dbvars, rowvars, stmt, conn, foreign_keys, txn,
                    first_time, status_msg, ret, missing, existing, entry, succ >>

\* Lines 166 and 171-184: the call, and db_connection.txt.
WriteConnectionTxt ==
    /\ pc = "emit1"
    /\ WriteArtifact(1, "emit2")

\* Lines 187-194: .env.
WriteEnv ==
    /\ pc = "emit2"
    /\ WriteArtifact(2, "emit3")

\* Lines 197-203: db_visualizer/sqlite.env.
WriteVisualizerEnv ==
    /\ pc = "emit3"
    /\ WriteArtifact(3, "emit_msg")

\* Lines 205-213: the status lines; first_time picks the last one.
PrintStatus ==
    /\ pc = "emit_msg"
    /\ status_msg' = IF first_time
                     THEN "Initialized a new database file."
                     ELSE "Verified existing database and ensured schema is present."
    /\ pc' = "return"
    /\ UNCHANGED << dbvars, rowvars, stmt, conn, foreign_keys, txn,
                    first_time, written, warned, ret, missing, existing,
                    entry, succ >>

\* What becomes of a connection that was never closed when the frame that
\* holds it is dropped: the interpreter may finalize it at once (reference
\* counting) or later.
Dropped(c) == IF c = "open" THEN { "open", "closed" } ELSE { c }

\* Line 166, end: init_sqlite_db returns None.
InitReturn ==
    /\ pc = "return"
    /\ pc' = "returned"
    /\ ret' = "None"
    /\ succ' = TRUE
    /\ conn' \in Dropped(conn)
    /\ UNCHANGED << dbvars, rowvars, stmt, foreign_keys, txn, first_time,
                    written, warned, status_msg, missing, existing, entry >>

\* The script ends (lines 216-222 of init_db.py, 51-52 of test_db.py): the
\* process exits and its connection goes with it.
Exit ==
    /\ pc \in { "returned", "raised", "v_returned" }
    /\ pc' = "idle"
    /\ conn' = "none" /\ foreign_keys' = FALSE /\ txn' = NoTxn /\ stmt' = 1
    /\ first_time' = FALSE /\ written' = {} /\ warned' = {}
    /\ status_msg' = "" /\ ret' = "none" /\ missing' = {} /\ existing' = {}
    /\ entry' = NoEntry
    /\ UNCHANGED << dbvars, rowvars, succ >>

\* ------------------------------------------------------- test_db.py: main

\* Lines 28-30: the file is absent: return 1 without connecting.
MainEnter ==
    /\ pc = "idle"
    /\ entry' = Persisted
    /\ IF ~file_exists
       THEN /\ status_msg' = "Database file not found"
            /\ ret' = "1"
            /\ pc' = "v_returned"
       ELSE /\ pc' = "v_connect"
            /\ ret' = "none"
            /\ UNCHANGED status_msg
    /\ UNCHANGED << dbvars, rowvars, stmt, conn, foreign_keys, txn,
                    first_time, written, warned, missing, existing, succ >>

\* Lines 47-49: except sqlite3.Error: return 1.
MainCaught ==
    /\ status_msg' = "Schema validation failed"
    /\ ret' = "1"
    /\ pc' = "v_returned"
    /\ conn' \in Dropped(conn)

\* Line 33: sqlite3.connect(DB_NAME).
MainConnect ==
    /\ pc = "v_connect"
    /\ \E ok \in BOOLEAN :
         IF ok THEN /\ conn' = "open"
                    /\ pc' = "v_pragma"
                    /\ UNCHANGED << ret, status_msg >>
               ELSE MainCaught
    /\ UNCHANGED << dbvars, rowvars, stmt, foreign_keys, txn, first_time,
                    written, warned, missing, existing, entry, succ >>

\* Lines 34-35: PRAGMA foreign_keys = ON.
MainPragma ==
    /\ pc = "v_pragma"
    /\ \E ok \in BOOLEAN :
         IF ok THEN /\ foreign_keys' = TRUE
                    /\ pc' = "v_select"
                    /\ UNCHANGED << ret, status_msg, conn >>
               ELSE MainCaught /\ UNCHANGED foreign_keys
    /\ UNCHANGED << dbvars, rowvars, stmt, txn, first_time, written, warned,
                    missing, existing, entry, succ >>

\* SELECT name FROM sqlite_master WHERE type='table' AND name NOT LIKE 'sqlite_%'
Existing == tables \ InternalTables

\* Lines 36-46: existing, missing, and the return from inside the with
\* block (whose exit commits nothing and closes nothing).
MainCheck ==
    /\ pc = "v_select"
    /\ \E ok \in BOOLEAN :
         IF ok THEN /\ existing' = Existing
                    /\ missing' = REQUIRED_TABLES \ Existing
                    /\ IF REQUIRED_TABLES \ Existing # {}
                       THEN status_msg' = "Missing tables" /\ ret' = "1"
                       ELSE status_msg' = "All required tables are present."
                            /\ ret' = "0"
                    /\ pc' = "v_returned"
                    /\ conn' \in Dropped(conn)
               ELSE MainCaught /\ UNCHANGED << existing, missing >>
    /\ UNCHANGED << dbvars, rowvars, stmt, foreign_keys, txn, first_time,
                    written, warned, entry, succ >>

\* ------------------------------------- the schema under an application
\* The application (out of this repository) works on a database that
\* init_sqlite_db has set up, between runs of the scripts, one statement at
\* a time. It inserts with foreign keys enforced; a deletion is made with
\* PRAGMA foreign_keys on (enforce) or left at the engine's default, off.

Ids(rows) == { r.id : r \in rows }

RowIds == 1..MaxRows

\* Rows inserted so far by the application.
Inserted ==
    seq["users"] + seq["credentials"] + seq["shares"]
      + seq["ekyc_sessions"] + seq["audit_logs"]

\* The ON DELETE action declared for column col of table t, "NONE" when
\* the column has no FOREIGN KEY clause.
OnDelete(t, col) ==
    LET fks == { f \in ForeignKeys : f.table = t /\ f.column = col }
    IN IF fks = {} THEN "NONE" ELSE (CHOOSE f \in fks : TRUE).on_delete

\* The rows of a child table once the parent rows with ids gone are deleted.
AfterDelete(rows, col, gone, action) ==
    CASE action = "CASCADE"  -> { r \in rows : r[col] \notin gone }
      [] action = "SET NULL" -> { IF r[col] \in gone THEN [ r EXCEPT ![col] = NULL ]
                                                     ELSE r : r \in rows }
      [] OTHER               -> rows

\* The ids of the rows that the deletion of the parent rows gone deletes.
Cascaded(rows, col, gone, action) ==
    IF action = "CASCADE" THEN Ids({ r \in rows : r[col] \in gone }) ELSE {}

\* Rows left referencing a parent in gone through a declared foreign key:
\* the statement fails (the default action, NO ACTION).
Dangling(rows, col, gone, action) ==
    action # "NONE" /\ \E r \in rows : r[col] \in gone

\* DELETE FROM users WHERE id = u, foreign keys enforced.
CascadeDeleteUser(u) ==
    LET goneU  == { u }
        creds1 == AfterDelete(credentials, "user_id", goneU,
                              OnDelete("credentials", "user_id"))
        goneC  == Cascaded(credentials, "user_id", goneU,
                           OnDelete("credentials", "user_id"))
        sh1    == AfterDelete(shares, "shared_with_user_id", goneU,
                              OnDelete("shares", "shared_with_user_id"))
        sh2    == AfterDelete(sh1, "credential_id", goneC,
                              OnDelete("shares", "credential_id"))
        ek1    == AfterDelete(ekyc_sessions, "user_id", goneU,
                              OnDelete("ekyc_sessions", "user_id"))
        au1    == AfterDelete(audit_logs, "user_id", goneU,
                              OnDelete("audit_logs", "user_id"))
    IN [ error |->
           \/ Dangling(creds1, "user_id", goneU, OnDelete("credentials", "user_id"))
           \/ Dangling(sh2, "shared_with_user_id", goneU,
                       OnDelete("shares", "shared_with_user_id"))
           \/ Dangling(sh2, "credential_id", goneC,
                       OnDelete("shares", "credential_id"))
           \/ Dangling(ek1, "user_id", goneU, OnDelete("ekyc_sessions", "user_id"))
           \/ Dangling(au1, "user_id", goneU, OnDelete("audit_logs", "user_id")),
         credentials |-> creds1, shares |-> sh2, ekyc_sessions |-> ek1,
         audit_logs |-> au1 ]

\* No script is running, and init_sqlite_db has set the database up.
AppReady == pc = "idle" /\ succ

AppUnchanged ==
    UNCHANGED << file_exists, journal_mode, tables, indexes, app_info, pc,
                 stmt, conn, foreign_keys, txn, first_time, written, warned,
                 status_msg, missing, existing, entry, succ >>

\* A parent row with this id exists, or the column has no FOREIGN KEY
\* clause. (The application inserts with foreign keys enforced.)
RefOk(t, col, id, parents) ==
    OnDelete(t, col) = "NONE" \/ id \in parents

\* INSERT INTO users.
InsertUser ==
    /\ AppReady /\ "users" \in tables
    /\ Inserted < MaxRows
    /\ users' = users \cup { seq["users"] + 1 }
    /\ seq' = [ seq EXCEPT !["users"] = @ + 1 ]
    /\ ret' = "ok"
    /\ UNCHANGED << credentials, shares, ekyc_sessions, audit_logs >>
    /\ AppUnchanged

\* DELETE FROM users WHERE id = u.
DeleteUser(u, enforce) ==
    /\ AppReady /\ u \in users
    /\ LET res == CascadeDeleteUser(u)
       IN IF ~enforce
          THEN /\ users' = users \ { u }
               /\ ret' = "ok"
               /\ UNCHANGED << credentials, shares, ekyc_sessions, audit_logs >>
          ELSE IF res.error
          THEN /\ ret' = "IntegrityError: FOREIGN KEY"
               /\ UNCHANGED rowvars
          ELSE /\ users' = users \ { u }
               /\ credentials' = res.credentials
               /\ shares' = res.shares
               /\ ekyc_sessions' = res.ekyc_sessions
               /\ audit_logs' = res.audit_logs
               /\ ret' = "ok"
    /\ UNCHANGED seq
    /\ AppUnchanged

\* INSERT INTO credentials (user_id, ...) VALUES (u, ...).
InsertCredential(u) ==
    /\ AppReady /\ "credentials" \in tables
    /\ Inserted < MaxRows
    /\ IF RefOk("credentials", "user_id", u, users)
       THEN /\ credentials' = credentials \cup
                  { [ id |-> seq["credentials"] + 1, user_id |-> u ] }
            /\ seq' = [ seq EXCEPT !["credentials"] = @ + 1 ]
            /\ ret' = "ok"
       ELSE /\ ret' = "IntegrityError: FOREIGN KEY"
            /\ UNCHANGED << credentials, seq >>
    /\ UNCHANGED << users, shares, ekyc_sessions, audit_logs >>
    /\ AppUnchanged

\* Mutant of SharesConflict: shares has no UNIQUE constraint.
NoSharesConflict(c, u) == FALSE

\* A row of shares that agrees with (c, u) on the columns of the UNIQUE
\* constraint.
SharesConflict(c, u) ==
    LET new == [ credential_id |-> c, shared_with_user_id |-> u ]
    IN \E r \in shares :
         \A i \in 1..Len(SharesUnique) : r[SharesUnique[i]] = new[SharesUnique[i]]

\* INSERT INTO shares (credential_id, shared_with_user_id) VALUES (c, u).
InsertShare(c, u) ==
    /\ AppReady /\ "shares" \in tables
    /\ IF SharesConflict(c, u)
       THEN /\ ret' = "IntegrityError: UNIQUE"
            /\ UNCHANGED << shares, seq >>
       ELSE IF ~ ( /\ RefOk("shares", "credential_id", c, Ids(credentials))
                   /\ RefOk("shares", "shared_with_user_id", u, users) )
       THEN /\ ret' = "IntegrityError: FOREIGN KEY"
            /\ UNCHANGED << shares, seq >>
       ELSE /\ Inserted < MaxRows
            /\ shares' = shares \cup
                  { [ id |-> seq["shares"] + 1, credential_id |-> c,
                      shared_with_user_id |-> u ] }
            /\ seq' = [ seq EXCEPT !["shares"] = @ + 1 ]
            /\ ret' = "ok"
    /\ UNCHANGED << users, credentials, ekyc_sessions, audit_logs >>
    /\ AppUnchanged

\* INSERT INTO ekyc_sessions (user_id, ...) VALUES (u, ...).
InsertEkycSession(u) ==
    /\ AppReady /\ "ekyc_sessions" \in tables
    /\ Inserted < MaxRows
    /\ IF RefOk("ekyc_sessions", "user_id", u, users)
       THEN /\ ekyc_sessions' = ekyc_sessions \cup
                  { [ id |-> seq["ekyc_sessions"] + 1, user_id |-> u ] }
            /\ seq' = [ seq EXCEPT !["ekyc_sessions"] = @ + 1 ]
            /\ ret' = "ok"
       ELSE /\ ret' = "IntegrityError: FOREIGN KEY"
            /\ UNCHANGED << ekyc_sessions, seq >>
    /\ UNCHANGED << users, credentials, shares, audit_logs >>
    /\ AppUnchanged

\* INSERT INTO audit_logs (user_id, action) VALUES (u, ...), u an id or NULL.
InsertAuditLog(u) ==
    /\ AppReady /\ "audit_logs" \in tables
    /\ Inserted < MaxRows
    /\ IF u = NULL \/ RefOk("audit_logs", "user_id", u, users)
       THEN /\ audit_logs' = audit_logs \cup
                  { [ id |-> seq["audit_logs"] + 1, user_id |-> u ] }
            /\ seq' = [ seq EXCEPT !["audit_logs"] = @ + 1 ]
            /\ ret' = "ok"
       ELSE /\ ret' = "IntegrityError: FOREIGN KEY"
            /\ UNCHANGED << audit_logs, seq >>
    /\ UNCHANGED << users, credentials, shares, ekyc_sessions >>
    /\ AppUnchanged

Application ==
    \/ InsertUser
    \/ \E u \in RowIds, enforce \in BOOLEAN : DeleteUser(u, enforce)
    \/ \E u \in RowIds : InsertCredential(u)
    \/ \E c \in RowIds, u \in RowIds : InsertShare(c, u)
    \/ \E u \in RowIds : InsertEkycSession(u)
    \/ \E u \in RowIds \cup { NULL } : InsertAuditLog(u)

\* ---------------------------------------------------------- specification

\* The bootstrap scripts, run one after the other on the same path.
Next ==
    \/ InitEnter \/ InitConnect \/ PragmaForeignKeys \/ PragmaJournalMode
    \/ PragmaSynchronous \/ ExecuteStatement \/ SeedProjectName \/ SeedVersion
    \/ Commit \/ ExitWith \/ WriteConnectionTxt \/ WriteEnv
    \/ WriteVisualizerEnv \/ PrintStatus \/ InitReturn \/ Exit
    \/ MainEnter \/ MainConnect \/ MainPragma \/ MainCheck

Spec == Init /\ [][Next]_vars

\* What a run of init_sqlite_db without failure makes of a catalogue: the
\* statements from the i-th on, executed in order.
RECURSIVE ExecuteFrom(_, _)
ExecuteFrom(i, cat) ==
    IF i > Len(schema_statements) \/ cat.error
    THEN cat
    ELSE ExecuteFrom(i + 1, Execute(schema_statements[i], cat))

CreatedCatalogue ==
    ExecuteFrom(1, [ error |-> FALSE, tables |-> {}, indexes |-> {} ])

CreatedAppInfo ==
    LET one == InsertOrReplace({}, 0, SeedRows[1])
    IN InsertOrReplace(one.app_info, one.seq, SeedRows[2])

\* The database that one run of init_sqlite_db creates at a fresh path,
\* the scripts at rest.
InitApp ==
    /\ file_exists = TRUE
    /\ journal_mode = "wal"
    /\ ~CreatedCatalogue.error
    /\ tables = CreatedCatalogue.tables
    /\ indexes = CreatedCatalogue.indexes
    /\ app_info = CreatedAppInfo.app_info
    /\ seq = [ t \in TableNames |->
                 IF t = "app_info" THEN CreatedAppInfo.seq ELSE 0 ]
    /\ users = {} /\ credentials = {} /\ shares = {}
    /\ ekyc_sessions = {} /\ audit_logs = {}
    /\ pc = "idle" /\ stmt = 1 /\ conn = "none" /\ foreign_keys = FALSE
    /\ txn = NoTxn /\ first_time = FALSE
    /\ written = {} /\ warned = {} /\ status_msg = "" /\ ret = "none"
    /\ missing = {} /\ existing = {}
    /\ entry = NoEntry /\ succ = TRUE

\* The application at work on that database.
SpecApp == InitApp /\ [][Application]_vars

\* InitApp is what Spec reaches: a run on an absent file that returns
\* leaves exactly this database.
CreatedIsReached ==
    (pc = "returned" /\ first_time) =>
        /\ tables = CreatedCatalogue.tables
        /\ indexes = CreatedCatalogue.indexes
        /\ app_info = CreatedAppInfo.app_info
        /\ seq["app_info"] = CreatedAppInfo.seq
        /\ journal_mode = "wal" /\ file_exists

\* ------------------------------------------------------------------ claims

SeedKeys == { SeedRows[i].key : i \in 1..Len(SeedRows) }

\* The call that is running, or has just ended, found a database that an
\* earlier run of init_sqlite_db had already set up and seeded.
RepeatedCall ==
    /\ entry.file_exists
    /\ TableNames \subseteq entry.tables
    /\ IndexNames \subseteq entry.indexes
    /\ \E r \in entry.app_info : r.key = "version" /\ r.value = "0.2.0"
    /\ \E r \in entry.app_info : r.key = "project_name"

\* C1. Once init_sqlite_db has returned without error, nothing that runs
\* later, a repeated init_sqlite_db included, adds, drops or alters a table
\* or an index; and no call of init_sqlite_db, the first or a repeated one,
\* changes anything of the database's content but the two seed rows of
\* app_info (with the AUTOINCREMENT counter that numbers them).
C1_Idempotent ==
    [][ /\ succ =>
             /\ tables' = tables
             /\ indexes' = indexes
             /\ file_exists' = file_exists
             /\ journal_mode' = journal_mode
        /\ rowvars' = rowvars
        /\ \A t \in TableNames \ { "app_info" } : seq'[t] = seq[t]
        /\ { r \in app_info' : r.key \notin { "project_name", "version" } }
             = { r \in app_info : r.key \notin { "project_name", "version" } }
      ]_vars

\* A repeated call has returned: it found the schema, the seed rows and the
\* rows of an application, and rewrote the seed rows.
C1_Witness ==
    /\ pc = "returned" /\ RepeatedCall
    /\ app_info # entry.app_info
    /\ entry.users # {} /\ users = entry.users
    /\ tables = entry.tables /\ indexes = entry.indexes

\* The index targets (table, column) of the indexes the database holds.
IndexTargets ==
    { [ on |-> d.on, column |-> d.column ] :
        d \in { x \in IndexDefs : x.name \in indexes } }

C2_AllPresent ==
    /\ { "app_info", "users", "credentials", "shares", "ekyc_sessions",
         "audit_logs" } \subseteq tables
    /\ { [ on |-> "users",         column |-> "email" ],
         [ on |-> "users",         column |-> "username" ],
         [ on |-> "credentials",   column |-> "user_id" ],
         [ on |-> "shares",        column |-> "credential_id" ],
         [ on |-> "shares",        column |-> "shared_with_user_id" ],
         [ on |-> "ekyc_sessions", column |-> "user_id" ],
         [ on |-> "audit_logs",    column |-> "user_id" ],
         [ on |-> "audit_logs",    column |-> "created_at" ] } \subseteq IndexTargets

\* C2. Whenever init_sqlite_db returns without error, whatever the file
\* held before, the database has the six tables and the eight indexes; and
\* whenever a step creates a table or an index, the tables it references
\* (by foreign key, or as the indexed table) exist already.
C2_SchemaComplete ==
    [][ /\ pc' = "returned" => C2_AllPresent'
        /\ \A t \in tables' \ tables :
             \A f \in ForeignKeys : f.table = t => f.ref \in tables
        /\ \A i \in indexes' \ indexes :
             \A d \in IndexDefs : d.name = i => d.on \in tables
      ]_vars

\* A call has returned that found a file holding the shares table alone.
C2_Witness ==
    /\ pc = "returned"
    /\ entry.file_exists
    /\ entry.tables = { "shares" } \cup InternalTables
    /\ entry.indexes = {}
    /\ C2_AllPresent

NoDuplicateKey(rows) ==
    \A r1, r2 \in rows : r1.key = r2.key => r1 = r2

\* C3. No two rows of app_info have the same key, in the file or in the
\* connection's open transaction; and once init_sqlite_db has returned
\* without error, however often it runs, the file holds exactly one row
\* with key project_name and exactly one with key version.
C3_OneSeedRowPerKey ==
    /\ NoDuplicateKey(app_info)
    /\ NoDuplicateKey(View.app_info)
    /\ succ =>
         \A k \in { "project_name", "version" } :
            Cardinality({ r \in app_info : r.key = k }) = 1

\* A repeated call has returned and has replaced both seed rows.
C3_Witness ==
    /\ pc = "returned" /\ RepeatedCall
    /\ \A r \in app_info : r.key \in SeedKeys => r \notin entry.app_info
    /\ Cardinality({ r \in app_info : r.key \in SeedKeys }) = 2

\* C4 (as claimed). When init_sqlite_db has raised, the file holds none
\* of the call's schema or seed changes.
C4_AllOrNothing ==
    pc = "raised" =>
        /\ tables = entry.tables
        /\ indexes = entry.indexes
        /\ app_info = entry.app_info

\* C5 (as claimed). When init_sqlite_db or main has exited, by return or
\* by exception, its connection is not open.
C5_ClosedOnExit ==
    pc \in { "returned", "raised", "v_returned" } => conn # "open"

\* C6. main returns 0 exactly when the file exists, no storage error
\* occurred and the five required tables are all present, and 1
\* otherwise; on an absent file it returns 1, has opened no connection and
\* has not created the file; the missing set it reports is the required
\* tables less the existing ones.
C6_ValidatorVerdict ==
    pc = "v_returned" =>
        LET required == { "users", "credentials", "shares", "ekyc_sessions",
                          "audit_logs" }
            failed   == status_msg = "Schema validation failed"
        IN /\ ret \in { "0", "1" }
           /\ ret = "0" <=> ( /\ entry.file_exists
                              /\ ~failed
                              /\ required \subseteq tables )
           /\ ~entry.file_exists =>
                 /\ ret = "1" /\ conn = "none" /\ ~file_exists
                 /\ status_msg = "Database file not found"
           /\ status_msg = "Missing tables" =>
                 /\ existing = tables \ InternalTables
                 /\ missing = required \ existing
                 /\ missing # {}
           /\ Persisted = entry

\* main has run on a file with users and credentials only.
C6_Witness ==
    /\ pc = "v_returned" /\ ret = "1"
    /\ existing = { "users", "credentials" }
    /\ missing = { "shares", "ekyc_sessions", "audit_logs" }

EmitPcs == { "emit1", "emit2", "emit3", "emit_msg", "return" }

SeedsCommitted ==
    \A i \in 1..Len(SeedRows) :
       \E r \in app_info : r.key = SeedRows[i].key /\ r.value = SeedRows[i].value

\* C7. Once write_connection_files is entered no step raises, whichever
\* of the three writes fail; when init_sqlite_db has returned each of the
\* three artifacts was attempted (written or warned about) and the
\* database holds the committed schema and seed rows.
C7_WritesIndependent ==
    [][ /\ pc \in EmitPcs => pc' \in EmitPcs \cup { "returned" }
        /\ pc' = "emit2" => Artifacts[1] \in written' \cup warned'
        /\ pc' = "emit3" => { Artifacts[1], Artifacts[2] } \subseteq written' \cup warned'
        /\ pc' \in { "emit_msg", "return", "returned" } =>
              /\ written' \cup warned' =
                   { "db_connection.txt", ".env", "db_visualizer/sqlite.env" }
              /\ written' \cap warned' = {}
        /\ pc' = "returned" =>
              /\ ret' = "None"
              /\ TableNames \subseteq tables' /\ SeedsCommitted'
              /\ txn' = NoTxn
      ]_vars

\* The first and the last write failed, the one between them was made,
\* and init_sqlite_db has returned.
C7_Witness ==
    /\ pc = "returned"
    /\ warned = { "db_connection.txt", "db_visualizer/sqlite.env" }
    /\ written = { ".env" }

\* C9 (as claimed). While write_connection_files runs, the schema and
\* the seed rows are committed, the connection is released, and first_time
\* tells whether the file was absent when init_sqlite_db was entered.
C9_EmitAfterRelease ==
    pc \in EmitPcs =>
        /\ TableNames \subseteq tables /\ IndexNames \subseteq indexes
        /\ SeedsCommitted /\ txn = NoTxn
        /\ first_time = ~entry.file_exists
        /\ conn # "open"

\* What of C9 the code does: all of it but the release of the connection.
C9_EmitAfterCommit ==
    /\ pc \in EmitPcs =>
          /\ TableNames \subseteq tables /\ IndexNames \subseteq indexes
          /\ SeedsCommitted /\ txn = NoTxn
          /\ first_time = ~entry.file_exists
    /\ pc = "raised" => written \cup warned = {} /\ status_msg = ""

\* C8. When a users row is deleted with foreign keys enforced, the
\* credentials of that user, the shares that reference the user or one of
\* those credentials and the user's ekyc_sessions are removed, and nothing
\* else is; every audit_logs row is kept, those of the user with user_id
\* NULL; no row is left referencing the user.
C8_DeleteCascades ==
    [][ \A u \in users \ users' :
          DeleteUser(u, TRUE) =>
             LET owned == Ids({ c \in credentials : c.user_id = u })
             IN /\ credentials' = { c \in credentials : c.user_id # u }
                /\ shares' = { x \in shares : /\ x.shared_with_user_id # u
                                              /\ x.credential_id \notin owned }
                /\ ekyc_sessions' = { e \in ekyc_sessions : e.user_id # u }
                /\ audit_logs' =
                     { IF a.user_id = u THEN [ id |-> a.id, user_id |-> NULL ]
                                        ELSE a : a \in audit_logs }
                /\ Ids(audit_logs') = Ids(audit_logs)
                /\ \A c \in credentials' : c.user_id # u
                /\ \A x \in shares' : x.shared_with_user_id # u
                /\ \A e \in ekyc_sessions' : e.user_id # u
                /\ \A a \in audit_logs' : a.user_id # u
                /\ users' = users \ { u }
      ]_vars

\* A user was deleted who shared a credential with another user and had
\* an audit row: the credential and the share are gone, the other user and
\* the audit row are there, the row's user_id NULL.
C8_Witness ==
    /\ users = { 2 }
    /\ seq["credentials"] = 1 /\ credentials = {}
    /\ seq["shares"] = 1 /\ shares = {}
    /\ audit_logs = { [ id |-> 1, user_id |-> NULL ] }
    /\ ret = "ok"

SamePair(r1, r2) ==
    /\ r1.credential_id = r2.credential_id
    /\ r1.shared_with_user_id = r2.shared_with_user_id

\* C10. No two rows of shares have the same (credential_id,
\* shared_with_user_id); an insert of a pair that a row already has is
\* rejected with a uniqueness violation and leaves shares as it was.
C10_SharesUnique ==
    [][ /\ \A r1, r2 \in shares' : SamePair(r1, r2) => r1 = r2
        /\ \A r \in shares :
             InsertShare(r.credential_id, r.shared_with_user_id)
             => /\ shares' = shares
                /\ seq' = seq
                /\ ret' = "IntegrityError: UNIQUE"
      ]_vars

\* A second insert of a pair was rejected.
C10_Witness ==
    /\ ret = "IntegrityError: UNIQUE"
    /\ Cardinality(shares) = 1

====
